---- MODULE Spec2Model ----
(***************************************************************************)
(* PUFlib: the central library (src/puflib/puflib.c) and the test module   *)
(* (src/modules/puflibtest/puflibtest.c).                                  *)
(*                                                                         *)
(* The non-volatile storage is a map from store paths to entries; the      *)
(* library functions are operators on a storage record                     *)
(*     [fs, anc, errno]                                                    *)
(* that return [st |-> the storage afterwards, ret |-> the C return value].*)
(* The functions of misc.c (path derivation, access check, directory tree  *)
(* creation and removal, exclusive file creation, asprintf) are not part   *)
(* of the sources at hand and are modelled from their documented contract. *)
(***************************************************************************)
EXTENDS Integers, Sequences, FiniteSets, TLC

VARIABLES fs, anc, errno, STATUS_CALLBACK, QUERY_CALLBACK, last, streak, killed, procs

vars == <<fs, anc, errno, STATUS_CALLBACK, QUERY_CALLBACK, last, streak, killed, procs>>

----------------------------------------------------------------------------
(* Bounds of the model *)

\* at most this many stores exist at the same time
MaxStores == 2

\* at most this many entries inside a directory store
MaxKids == 1

----------------------------------------------------------------------------
(* Names *)

\* the null pointer: no path, no handler
NULL == <<>>

MODULE_INFO == "puflibtest"

PUFLIB_MODULES == <<"puflibtest", "other">>

Modules == {PUFLIB_MODULES[i] : i \in 1..Len(PUFLIB_MODULES)}

FileKinds == {"TEMP_FILE", "FINAL_FILE", "DISABLED_FILE"}

DirKinds == {"TEMP_DIR", "FINAL_DIR", "DISABLED_DIR"}

Kinds == FileKinds \cup DirKinds

AllPaths == Modules \X Kinds

\* the stores the calls of the model are made on: every store of the test
\* module, and these of the other module
OtherKinds == {"TEMP_FILE", "FINAL_DIR"}

Paths == {p \in AllPaths : p[1] = MODULE_INFO \/ p[2] \in OtherKinds}

storage_type_is_dir(type) ==
    \/ type = "TEMP_DIR"
    \/ type = "FINAL_DIR"
    \/ type = "DISABLED_DIR"

PROVISION_COMPLETE == "COMPLETE"

PROVISION_INCOMPLETE == "INCOMPLETE"

PROVISION_ERROR == "ERROR"

MODULE_PROVISIONED == "PROVISIONED"

MODULE_DISABLED == "DISABLED"

\* a module status is a set of flags; the error status is a set of its own
MODULE_STATUS_ERROR == {"MODULE_STATUS_ERROR"}

STATUS_INFO == 0

STATUS_WARN == 1

STATUS_ERROR == 2

----------------------------------------------------------------------------
(* Entries of the file system and file contents.  A content is a sequence  *)
(* of characters (one-character strings).                                  *)

Absent == [t |-> "absent", c |-> <<>>, n |-> 0]

File(c) == [t |-> "file", c |-> c, n |-> 0]

Dir(n) == [t |-> "dir", c |-> <<>>, n |-> n]

Digits == <<"0", "1", "2", "3", "4", "5", "6", "7", "8", "9">>

IsDigit(ch) == \E i \in 1..10 : Digits[i] = ch

DigitVal(ch) == (CHOOSE i \in 1..10 : Digits[i] = ch) - 1

IsSpace(ch) == ch \in {" ", "\n", "\t"}

\* the decimal digits of n >= 0, as printf's %d writes them
RECURSIVE FormatNat(_)
FormatNat(n) ==
    IF n < 10 THEN <<Digits[n + 1]>>
    ELSE FormatNat(n \div 10) \o <<Digits[(n % 10) + 1]>>

\* printf("%d\n", n)
FormatStep(n) ==
    (IF n < 0 THEN <<"-">> \o FormatNat(-n) ELSE FormatNat(n)) \o <<"\n">>

RECURSIVE SkipSpace(_)
SkipSpace(s) ==
    IF s # <<>> /\ IsSpace(Head(s)) THEN SkipSpace(Tail(s)) ELSE s

\* the value of the leading run of digits of s, continuing from acc
RECURSIVE ScanDigits(_, _)
ScanDigits(s, acc) ==
    IF s # <<>> /\ IsDigit(Head(s))
    THEN ScanDigits(Tail(s), acc * 10 + DigitVal(Head(s)))
    ELSE acc

\* fscanf(f, "%d", &step) at the start of the file: white space is skipped,
\* then an optional sign and at least one digit are converted; without a
\* digit nothing is assigned.
ScanInt(c) ==
    LET s == SkipSpace(c)
        signed == s # <<>> /\ Head(s) \in {"-", "+"}
        d == IF signed THEN Tail(s) ELSE s
    IN  IF d # <<>> /\ IsDigit(Head(d))
        THEN [ok |-> TRUE,
              val |-> IF signed /\ Head(s) = "-" THEN -ScanDigits(d, 0)
                      ELSE ScanDigits(d, 0)]
        ELSE [ok |-> FALSE, val |-> 0]

\* the write without the rewind: the data lands behind what was read
OverwriteAtEnd(c, data) == c \o data

\* writing data at offset 0 of a file opened "r+": the bytes are replaced
\* in place and whatever lies behind them stays
Overwrite(c, data) ==
    IF Len(data) >= Len(c) THEN data
    ELSE data \o SubSeq(c, Len(data) + 1, Len(c))

Marker == <<"p", "r", "o", "v", "i", "s", "i", "o", "n", "e", "d">>

----------------------------------------------------------------------------
(* The helpers of misc.c and the C library calls, on a storage record      *)
(* st = [fs, anc, errno].  F is the set of operations that fail in the     *)
(* current call for a reason outside the library: <<op, kind>> with op one *)
(* of "path", "mkdir", "creat", "fopen", "write", "remove", "rmpartial".   *)

Fail(st, e) == [st |-> [st EXCEPT !.errno = e], ret |-> -1]

Ok(st) == [st |-> st, ret |-> 0]

\* puflib_get_nv_store_path: a pure function of the module name and the
\* storage type; it fails only if the storage root cannot be resolved
puflib_get_nv_store_path(name, type, F) ==
    IF <<"path", type>> \in F THEN NULL ELSE <<name, type>>

\* the storage after a failed path derivation: errno tells why
PathFail(st) == [st EXCEPT !.errno = "ENOENT"]

\* puflib_check_access: 0 iff the path exists with the expected shape
puflib_check_access(st, path, is_dir) ==
    IF st.fs[path].t = (IF is_dir THEN "dir" ELSE "file") THEN 0 ELSE -1

\* puflib_create_directory_tree: creates the missing directories of the
\* path, without its last component when skip_last
puflib_create_directory_tree(st, path, skip_last, F) ==
    IF <<"mkdir", path[2]>> \in F THEN Fail(st, "EIO")
    ELSE LET up == [st EXCEPT !.anc = @ \cup {path[1]}]
         IN  IF skip_last \/ up.fs[path].t = "dir" THEN Ok(up)
             ELSE IF up.fs[path].t = "file" THEN Fail(up, "EEXIST")
             ELSE Ok([up EXCEPT !.fs[path] = Dir(0)])

\* puflib_create_and_open: creates the file exclusively; an existing entry
\* makes it fail with EEXIST
puflib_create_and_open(st, path, F) ==
    IF <<"creat", path[2]>> \in F THEN Fail(st, "EIO")
    ELSE IF path[1] \notin st.anc THEN Fail(st, "ENOENT")
    ELSE IF st.fs[path].t # "absent" THEN Fail(st, "EEXIST")
    ELSE Ok([st EXCEPT !.fs[path] = File(<<>>)])

\* puflib_delete_tree: removes the directory and everything below it; a
\* failure may leave the tree partially removed
puflib_delete_tree(st, path, F) ==
    IF <<"remove", path[2]>> \in F THEN Fail(st, "EIO")
    ELSE IF st.fs[path].t = "absent" THEN Fail(st, "ENOENT")
    ELSE IF st.fs[path].t = "file" THEN Fail(st, "ENOTDIR")
    ELSE IF <<"rmpartial", path[2]>> \in F /\ st.fs[path].n > 0
         THEN Fail([st EXCEPT !.fs[path] = Dir(st.fs[path].n - 1)], "EIO")
    ELSE Ok([st EXCEPT !.fs[path] = Absent])

\* remove(3): unlink for a file, rmdir for a directory
remove(st, path, F) ==
    IF <<"remove", path[2]>> \in F THEN Fail(st, "EIO")
    ELSE IF st.fs[path].t = "absent" THEN Fail(st, "ENOENT")
    ELSE IF st.fs[path].t = "dir" /\ st.fs[path].n > 0 THEN Fail(st, "ENOTEMPTY")
    ELSE Ok([st EXCEPT !.fs[path] = Absent])

\* fopen(path, "r+"): the file must exist; nothing is truncated
fopen_rw(st, path, F) ==
    IF <<"fopen", path[2]>> \in F THEN Fail(st, "EIO")
    ELSE IF st.fs[path].t = "absent" THEN Fail(st, "ENOENT")
    ELSE IF st.fs[path].t = "dir" THEN Fail(st, "EISDIR")
    ELSE Ok(st)

\* fopen(path, "w"): creates the file or truncates it
fopen_w(st, path, F) ==
    IF <<"fopen", path[2]>> \in F THEN Fail(st, "EIO")
    ELSE IF path[1] \notin st.anc THEN Fail(st, "ENOENT")
    ELSE IF st.fs[path].t = "dir" THEN Fail(st, "EISDIR")
    ELSE Ok([st EXCEPT !.fs[path] = File(<<>>)])

\* fprintf / fputs at offset 0 followed by fclose: the data reaches the file
\* unless the write fails
file_write(st, path, data, F) ==
    IF <<"write", path[2]>> \in F \/ st.fs[path].t # "file" THEN Fail(st, "EIO")
    ELSE Ok([st EXCEPT !.fs[path] = File(Overwrite(st.fs[path].c, data))])

----------------------------------------------------------------------------
(* The NV store functions of puflib.c *)


puflib_create_nv_store_no_tree(st, name, type, F) ==
    LET path == puflib_get_nv_store_path(name, type, F)
    IN  IF path = NULL THEN [st |-> PathFail(st), ret |-> NULL]
        ELSE IF storage_type_is_dir(type) /\ puflib_check_access(st, path, TRUE) = 0
        THEN [st |-> [st EXCEPT !.errno = "EEXIST"], ret |-> NULL]
        ELSE IF ~storage_type_is_dir(type)
        THEN LET f == puflib_create_and_open(st, path, F)
             IN  IF f.ret # 0 THEN [st |-> f.st, ret |-> NULL]
                 ELSE [st |-> f.st, ret |-> path]
        ELSE [st |-> st, ret |-> path]

puflib_create_nv_store_no_check(st, name, type, F) ==
    LET path == puflib_get_nv_store_path(name, type, F)
    IN  IF path = NULL THEN [st |-> PathFail(st), ret |-> NULL]
        ELSE LET t == puflib_create_directory_tree(st, path, ~storage_type_is_dir(type), F)
             IN  IF t.ret # 0 THEN [st |-> t.st, ret |-> NULL]
                 ELSE IF ~storage_type_is_dir(type)
                 THEN LET f == puflib_create_and_open(t.st, path, F)
                      IN  IF f.ret # 0 THEN [st |-> f.st, ret |-> NULL]
                          ELSE [st |-> f.st, ret |-> path]
                 ELSE [st |-> t.st, ret |-> path]

puflib_create_nv_store(st, name, type, F) ==
    LET path == puflib_get_nv_store_path(name, type, F)
    IN  IF path = NULL THEN [st |-> PathFail(st), ret |-> NULL]
        ELSE IF storage_type_is_dir(type) /\ puflib_check_access(st, path, TRUE) = 0
        THEN [st |-> [st EXCEPT !.errno = "EEXIST"], ret |-> NULL]
        ELSE LET t == puflib_create_directory_tree(st, path, ~storage_type_is_dir(type), F)
             IN  IF t.ret # 0 THEN [st |-> t.st, ret |-> NULL]
                 ELSE IF ~storage_type_is_dir(type)
                 THEN LET f == puflib_create_and_open(t.st, path, F)
                      IN  IF f.ret # 0 THEN [st |-> f.st, ret |-> NULL]
                          ELSE [st |-> f.st, ret |-> path]
                 ELSE [st |-> t.st, ret |-> path]


puflib_get_nv_store_as_file(st, name, type, F) ==
    LET path == puflib_get_nv_store_path(name, type, F)
    IN  IF path = NULL THEN [st |-> PathFail(st), ret |-> NULL]
        ELSE IF puflib_check_access(st, path, FALSE) # 0
        THEN [st |-> [st EXCEPT !.errno = "EACCES"], ret |-> NULL]
        ELSE [st |-> st, ret |-> path]

puflib_get_nv_store(st, name, type, F) ==
    LET path == puflib_get_nv_store_path(name, type, F)
    IN  IF path = NULL THEN [st |-> PathFail(st), ret |-> NULL]
        ELSE IF puflib_check_access(st, path, storage_type_is_dir(type)) # 0
        THEN [st |-> [st EXCEPT !.errno = "EACCES"], ret |-> NULL]
        ELSE [st |-> st, ret |-> path]


puflib_delete_nv_store_inverted(st, name, type, F) ==
    LET path == puflib_get_nv_store_path(name, type, F)
    IN  IF path = NULL THEN [st |-> PathFail(st), ret |-> TRUE]
        ELSE LET d == IF storage_type_is_dir(type) THEN puflib_delete_tree(st, path, F)
                      ELSE remove(st, path, F)
             IN  [st |-> d.st, ret |-> d.ret = 0]

\* returns TRUE on error, as the C function does
puflib_delete_nv_store(st, name, type, F) ==
    LET path == puflib_get_nv_store_path(name, type, F)
    IN  IF path = NULL THEN [st |-> PathFail(st), ret |-> TRUE]
        ELSE LET d == IF storage_type_is_dir(type) THEN puflib_delete_tree(st, path, F)
                      ELSE remove(st, path, F)
             IN  [st |-> d.st, ret |-> d.ret # 0]



\* the loop of puflib_get_module from index i on: the position of the first
\* descriptor whose name is equal to name, NULL at the end of the table
RECURSIVE find_module(_, _, _)
find_module(modules, name, i) ==
    IF i > Len(modules) THEN NULL
    ELSE IF modules[i] = name THEN <<i>>
    ELSE find_module(modules, name, i + 1)

puflib_get_module_from_second(modules, name) == find_module(modules, name, 2)

\* modules: the table PUFLIB_MODULES, as the names of its descriptors
puflib_get_module(modules, name) == find_module(modules, name, 1)

puflib_module_status_disabled_only(st, name, F) ==
    LET path_f == puflib_get_nv_store_path(name, "FINAL_FILE", F)
        path_d == puflib_get_nv_store_path(name, "FINAL_DIR", F)
        path_dis_f == puflib_get_nv_store_path(name, "DISABLED_FILE", F)
        path_dis_d == puflib_get_nv_store_path(name, "DISABLED_DIR", F)
    IN  IF NULL \in {path_f, path_d, path_dis_f, path_dis_d} THEN MODULE_STATUS_ERROR
        ELSE LET access_f == puflib_check_access(st, path_f, FALSE) = 0
                 access_d == puflib_check_access(st, path_d, TRUE) = 0
                 access_dis_f == puflib_check_access(st, path_dis_f, FALSE) = 0
                 access_dis_d == puflib_check_access(st, path_dis_d, TRUE) = 0
             IN  (IF access_dis_f \/ access_dis_d THEN {MODULE_DISABLED} ELSE {})
                 \cup
                 (IF access_f \/ access_d THEN {MODULE_PROVISIONED} ELSE {})

\* the set of flags, or MODULE_STATUS_ERROR
puflib_module_status(st, name, F) ==
    LET path_f == puflib_get_nv_store_path(name, "FINAL_FILE", F)
        path_d == puflib_get_nv_store_path(name, "FINAL_DIR", F)
        path_dis_f == puflib_get_nv_store_path(name, "DISABLED_FILE", F)
        path_dis_d == puflib_get_nv_store_path(name, "DISABLED_DIR", F)
    IN  IF NULL \in {path_f, path_d, path_dis_f, path_dis_d} THEN MODULE_STATUS_ERROR
        ELSE LET access_f == puflib_check_access(st, path_f, FALSE) = 0
                 access_d == puflib_check_access(st, path_d, TRUE) = 0
                 access_dis_f == puflib_check_access(st, path_dis_f, FALSE) = 0
                 access_dis_d == puflib_check_access(st, path_dis_d, TRUE) = 0
             IN  (IF access_dis_f \/ access_dis_d
                  THEN {MODULE_PROVISIONED, MODULE_DISABLED} ELSE {})
                 \cup
                 (IF access_f \/ access_d THEN {MODULE_PROVISIONED} ELSE {})

\* returns TRUE on error, as the C function does
puflib_deprovision(st, name, F) ==
    LET gf == puflib_get_nv_store(st, name, "FINAL_FILE", F)
        gd == puflib_get_nv_store(gf.st, name, "FINAL_DIR", F)
        rf == IF gf.ret # NULL THEN remove(gd.st, gf.ret, F) ELSE Ok(gd.st)
    IN  IF rf.ret # 0 THEN [st |-> rf.st, ret |-> TRUE]
        ELSE LET rd == IF gd.ret # NULL THEN puflib_delete_tree(rf.st, gd.ret, F)
                       ELSE Ok(rf.st)
             IN  [st |-> rd.st, ret |-> rd.ret # 0]

----------------------------------------------------------------------------
(* The callback bus of puflib.c.  A report is the record of one call of    *)
(* the status handler: the handler called, the level and message asked     *)
(* for, and the text the handler received.                                 *)

FormatError == <<"error (puflib): internal error formatting message">>

StrError(e) == <<"strerror", e>>


LevelAsString_default_info(level) ==
    CASE level = STATUS_ERROR -> "error"
      [] level = STATUS_WARN -> "warn"
      [] OTHER -> "info"

LevelAsString(level) ==
    CASE level = STATUS_INFO -> "info"
      [] level = STATUS_WARN -> "warn"
      [] OTHER -> "error"

\* asprintf(&formatted, "%s (%s): %s", level_as_string, module->name, message)
puflib_asprintf(label, name, message) == <<label, " (", name, "): ">> \o message

\* aspr: the asprintf of this call succeeds
puflib_report(cb, name, level, message, aspr) ==
    [h |-> cb, level |-> level, msg |-> message,
     text |-> IF aspr THEN puflib_asprintf(LevelAsString(level), name, message)
              ELSE FormatError]

\* vaspr: the vasprintf of this call succeeds
puflib_report_fmt(cb, name, level, formatted, vaspr, aspr) ==
    IF vaspr THEN puflib_report(cb, name, level, formatted, aspr)
    ELSE [h |-> cb, level |-> level, msg |-> formatted, text |-> FormatError]

puflib_perror(cb, name, st, aspr) ==
    puflib_report(cb, name, STATUS_ERROR, StrError(st.errno), aspr)


puflib_query_unanswered_ok(st, qcb, buffer, h) ==
    IF qcb # NULL
    THEN [st |-> st, ret |-> h.ret, called |-> TRUE,
          buffer |-> IF h.touch THEN h.data ELSE buffer]
    ELSE [st |-> [st EXCEPT !.errno = "0"], ret |-> FALSE, called |-> FALSE,
          buffer |-> buffer]

\* qcb: the query handler or NULL; buffer: the caller's buffer as it was;
\* h = [ret, touch, data]: what the handler returns, whether it writes the
\* buffer, and what it writes
puflib_query(st, qcb, buffer, h) ==
    IF qcb # NULL
    THEN [st |-> st, ret |-> h.ret, called |-> TRUE,
          buffer |-> IF h.touch THEN h.data ELSE buffer]
    ELSE [st |-> [st EXCEPT !.errno = "0"], ret |-> TRUE, called |-> FALSE,
          buffer |-> buffer]

----------------------------------------------------------------------------
(* The test module, puflibtest.c.  The input of one invocation is          *)
(*   in = [F, aspr, vaspr, junk, h]                                        *)
(* with junk the content of the uninitialised query buffer.  The result    *)
(* is [st, ret, reports, mid], mid being the storage states between two    *)
(* storage operations of the invocation.                                   *)

TempPath == <<MODULE_INFO, "TEMP_FILE">>

FinalPath == <<MODULE_INFO, "FINAL_FILE">>

Info(cb, message, in) == puflib_report(cb, MODULE_INFO, STATUS_INFO, message, in.aspr)


provision_start_no_write(st, cb, qcb, in) ==
    LET q == puflib_query(st, qcb, in.junk, in.h)
    IN  [st |-> q.st,
         ret |-> PROVISION_INCOMPLETE,
         reports |->
            << Info(cb, <<"writing to NV store">>, in),
               Info(cb, <<"provisioning will continue after the next invocation">>, in),
               puflib_report_fmt(cb, MODULE_INFO, STATUS_INFO,
                   <<"query input was: ">> \o q.buffer, in.vaspr, in.aspr) >>,
         mid |-> {st},
         query |-> <<q.called, q.ret>>]

provision_start_checks_query(st, cb, qcb, in) ==
    LET w == file_write(st, TempPath, FormatStep(1), in.F)
        q == puflib_query(w.st, qcb, in.junk, in.h)
    IN  [st |-> q.st,
         ret |-> IF q.ret THEN PROVISION_ERROR ELSE PROVISION_INCOMPLETE,
         reports |->
            << Info(cb, <<"writing to NV store">>, in),
               Info(cb, <<"provisioning will continue after the next invocation">>, in),
               puflib_report_fmt(cb, MODULE_INFO, STATUS_INFO,
                   <<"query input was: ">> \o q.buffer, in.vaspr, in.aspr) >>,
         mid |-> {st},
         query |-> <<q.called, q.ret>>]

provision_start(st, cb, qcb, in) ==
    LET w == file_write(st, TempPath, FormatStep(1), in.F)
        q == puflib_query(w.st, qcb, in.junk, in.h)
    IN  [st |-> q.st,
         ret |-> PROVISION_INCOMPLETE,
         reports |->
            << Info(cb, <<"writing to NV store">>, in),
               Info(cb, <<"provisioning will continue after the next invocation">>, in),
               puflib_report_fmt(cb, MODULE_INFO, STATUS_INFO,
                   <<"query input was: ">> \o q.buffer, in.vaspr, in.aspr) >>,
         mid |-> {st},
         query |-> <<q.called, q.ret>>]

\* the value fscanf leaves in step, which starts as 0
read_step(st) ==
    LET scan == ScanInt(st.fs[TempPath].c)
    IN  IF scan.ok THEN scan.val ELSE 0

\* case 1 of provision_continue
continue_step_1(st, cb, in) ==
    LET w == file_write(st, TempPath, FormatStep(2), in.F)
    IN  [st |-> w.st,
         ret |-> PROVISION_INCOMPLETE,
         reports |->
            << Info(cb, <<"reading from NV store">>, in),
               Info(cb, <<"writing to NV store again">>, in),
               Info(cb, <<"provisioning will continue after the next invocation">>, in) >>,
         mid |-> {}, query |-> NULL]


continue_step_2_final_first(st, cb, in) ==
    LET head == << Info(cb, <<"reading from NV store">>, in),
                   Info(cb, <<"complete">>, in),
                   Info(cb, <<"deleting NV store">>, in) >>
        c == puflib_create_nv_store(st, MODULE_INFO, "FINAL_FILE", in.F)
        o == fopen_w(c.st, FinalPath, in.F)
        w == file_write(o.st, FinalPath, Marker, in.F)
        d == puflib_delete_nv_store(w.st, MODULE_INFO, "TEMP_FILE", in.F)
    IN  IF c.ret = NULL
        THEN [st |-> c.st, ret |-> PROVISION_ERROR,
              reports |-> Append(head, puflib_perror(cb, MODULE_INFO, c.st, in.aspr)),
              mid |-> {}, query |-> NULL]
        ELSE IF o.ret # 0
        THEN [st |-> o.st, ret |-> PROVISION_ERROR,
              reports |-> Append(head, puflib_perror(cb, MODULE_INFO, o.st, in.aspr)),
              mid |-> {c.st}, query |-> NULL]
        ELSE IF w.ret # 0
        THEN [st |-> w.st, ret |-> PROVISION_ERROR,
              reports |-> Append(head, puflib_perror(cb, MODULE_INFO, w.st, in.aspr)),
              mid |-> {c.st, o.st}, query |-> NULL]
        ELSE IF d.ret
        THEN [st |-> d.st, ret |-> PROVISION_ERROR,
              reports |-> Append(head,
                  puflib_report(cb, MODULE_INFO, STATUS_ERROR, StrError(d.st.errno), in.aspr)),
              mid |-> {c.st, o.st, w.st}, query |-> NULL]
        ELSE [st |-> d.st, ret |-> PROVISION_COMPLETE,
              reports |-> head,
              mid |-> {c.st, o.st, w.st}, query |-> NULL]

\* case 2 of provision_continue
continue_step_2(st, cb, in) ==
    LET head == << Info(cb, <<"reading from NV store">>, in),
                   Info(cb, <<"complete">>, in),
                   Info(cb, <<"deleting NV store">>, in) >>
        d == puflib_delete_nv_store(st, MODULE_INFO, "TEMP_FILE", in.F)
        c == puflib_create_nv_store(d.st, MODULE_INFO, "FINAL_FILE", in.F)
        o == fopen_w(c.st, FinalPath, in.F)
        w == file_write(o.st, FinalPath, Marker, in.F)
    IN  IF d.ret
        THEN [st |-> d.st, ret |-> PROVISION_ERROR,
              reports |-> Append(head,
                  puflib_report(cb, MODULE_INFO, STATUS_ERROR, StrError(d.st.errno), in.aspr)),
              mid |-> {}, query |-> NULL]
        ELSE IF c.ret = NULL
        THEN [st |-> c.st, ret |-> PROVISION_ERROR,
              reports |-> Append(head, puflib_perror(cb, MODULE_INFO, c.st, in.aspr)),
              mid |-> {d.st}, query |-> NULL]
        ELSE IF o.ret # 0
        THEN [st |-> o.st, ret |-> PROVISION_ERROR,
              reports |-> Append(head, puflib_perror(cb, MODULE_INFO, o.st, in.aspr)),
              mid |-> {d.st, c.st}, query |-> NULL]
        ELSE IF w.ret # 0
        THEN [st |-> w.st, ret |-> PROVISION_ERROR,
              reports |-> Append(head, puflib_perror(cb, MODULE_INFO, w.st, in.aspr)),
              mid |-> {d.st, c.st, o.st}, query |-> NULL]
        ELSE [st |-> w.st, ret |-> PROVISION_COMPLETE,
              reports |-> head,
              mid |-> {d.st, c.st, o.st}, query |-> NULL]

continue_default_repairs(st, cb, in) ==
    [st |-> [st EXCEPT !.fs[TempPath] = File(FormatStep(1))],
     ret |-> PROVISION_ERROR,
     reports |->
        << Info(cb, <<"reading from NV store">>, in),
           puflib_report(cb, MODULE_INFO, STATUS_WARN, <<"NV store corrupted">>, in.aspr) >>,
     mid |-> {}, query |-> NULL]

\* the default case of provision_continue
continue_default(st, cb, in) ==
    [st |-> st,
     ret |-> PROVISION_ERROR,
     reports |->
        << Info(cb, <<"reading from NV store">>, in),
           puflib_report(cb, MODULE_INFO, STATUS_WARN, <<"NV store corrupted">>, in.aspr) >>,
     mid |-> {}, query |-> NULL]

provision_continue(st, cb, in) ==
    CASE read_step(st) = 1 -> continue_step_1(st, cb, in)
      [] read_step(st) = 2 -> continue_step_2(st, cb, in)
      [] OTHER -> continue_default(st, cb, in)


provision_created_resets_final(c, cb, qcb, in) ==
    LET o == fopen_rw(c.st, c.ret, in.F)
    IN  IF o.ret # 0
        THEN [st |-> o.st, ret |-> PROVISION_ERROR,
              reports |-> << puflib_perror(cb, MODULE_INFO, o.st, in.aspr) >>,
              mid |-> {}, query |-> NULL]
        ELSE LET d == puflib_delete_nv_store(o.st, MODULE_INFO, "FINAL_FILE", in.F)
                 r == provision_start(d.st, cb, qcb, in)
             IN  [r EXCEPT !.reports = << Info(cb, <<"creating NV store">>, in) >> \o @]

\* provision() after the store was created; c is the result of the creation
provision_created(c, cb, qcb, in) ==
    LET o == fopen_rw(c.st, c.ret, in.F)
    IN  IF o.ret # 0
        THEN [st |-> o.st, ret |-> PROVISION_ERROR,
              reports |-> << puflib_perror(cb, MODULE_INFO, o.st, in.aspr) >>,
              mid |-> {}, query |-> NULL]
        ELSE LET r == provision_start(o.st, cb, qcb, in)
             IN  [r EXCEPT !.reports = << Info(cb, <<"creating NV store">>, in) >> \o @]

provision_not_created_retries(c, cb, in) ==
    LET info == Info(cb, <<"could not create or NV store exists, continuing provision">>, in)
        g == puflib_get_nv_store(c.st, MODULE_INFO, "TEMP_FILE", in.F)
        o == fopen_rw(g.st, g.ret, in.F)
    IN  IF g.ret = NULL
        THEN [st |-> g.st, ret |-> PROVISION_INCOMPLETE,
              reports |-> << info, puflib_perror(cb, MODULE_INFO, g.st, in.aspr) >>,
              mid |-> {}, query |-> NULL]
        ELSE IF o.ret # 0
        THEN [st |-> o.st, ret |-> PROVISION_ERROR,
              reports |-> << info, puflib_perror(cb, MODULE_INFO, o.st, in.aspr) >>,
              mid |-> {}, query |-> NULL]
        ELSE LET r == provision_continue(o.st, cb, in)
             IN  [r EXCEPT !.reports = <<info>> \o @]

\* provision() after the creation failed; c is the result of the creation
provision_not_created(c, cb, in) ==
    LET info == Info(cb, <<"could not create or NV store exists, continuing provision">>, in)
        g == puflib_get_nv_store(c.st, MODULE_INFO, "TEMP_FILE", in.F)
        o == fopen_rw(g.st, g.ret, in.F)
    IN  IF g.ret = NULL
        THEN [st |-> g.st, ret |-> PROVISION_ERROR,
              reports |-> << info, puflib_perror(cb, MODULE_INFO, g.st, in.aspr) >>,
              mid |-> {}, query |-> NULL]
        ELSE IF o.ret # 0
        THEN [st |-> o.st, ret |-> PROVISION_ERROR,
              reports |-> << info, puflib_perror(cb, MODULE_INFO, o.st, in.aspr) >>,
              mid |-> {}, query |-> NULL]
        ELSE LET r == provision_continue(o.st, cb, in)
             IN  [r EXCEPT !.reports = <<info>> \o @]


provision_refuses_disabled(st, cb, qcb, in) ==
    LET c == puflib_create_nv_store(st, MODULE_INFO, "TEMP_FILE", in.F)
    IN  IF MODULE_DISABLED \in puflib_module_status(st, MODULE_INFO, {})
        THEN [st |-> st, ret |-> PROVISION_ERROR,
              reports |-> << puflib_report(cb, MODULE_INFO, STATUS_ERROR,
                                 <<"module disabled">>, in.aspr) >>,
              mid |-> {}, query |-> NULL]
        ELSE IF c.ret # NULL THEN provision_created(c, cb, qcb, in)
        ELSE provision_not_created(c, cb, in)

provision(st, cb, qcb, in) ==
    LET c == puflib_create_nv_store(st, MODULE_INFO, "TEMP_FILE", in.F)
    IN  IF c.ret # NULL THEN provision_created(c, cb, qcb, in)
        ELSE provision_not_created(c, cb, in)

----------------------------------------------------------------------------
(* The state machine.                                                      *)
(*   fs, anc, errno   the storage: the entry at each store path, the       *)
(*                    modules whose ancestor directories exist, errno      *)
(*   STATUS_CALLBACK, QUERY_CALLBACK   the two handler slots               *)
(*   last             the call that has just returned: operation,          *)
(*                    arguments, failures injected, the storage before     *)
(*                    it, return value, reports issued; NoCall between     *)
(*                    two calls                                            *)
(*   streak           the results of the provision() invocations made in   *)
(*                    a row, without failures, since the module's storage  *)
(*                    was empty                                            *)
(*   killed           a provision() was interrupted by the end of its      *)
(*                    process                                              *)
(*   procs            the processes that run provision() at the same time: *)
(*                    where each one is in provision(), what it saw at the *)
(*                    temp store's path, what it wrote and returned        *)

\* the number of processes that run provision() at the same time
NProcs == 2

Procs == 1..NProcs

NotRunning == [pc |-> "start", saw |-> "", wrote |-> 0, ret |-> ""]

St == [fs |-> fs, anc |-> anc, errno |-> errno]

Store(st) == fs' = st.fs /\ anc' = st.anc /\ errno' = st.errno

NStores(f) == Cardinality({p \in AllPaths : f[p].t # "absent"})

StatusHandlers == {<<"status_1">>, <<"status_2">>}

QueryHandlers == {<<"query_1">>, <<"query_2">>}

\* the root of the storage cannot be resolved: every path derivation fails
RootUnresolved == {<<"path", k>> : k \in Kinds}

\* the failures one call can meet: none, one operation on one store, or an
\* unresolvable root
FaultSets(ops, kinds) ==
    {{}} \cup {{f} : f \in ops \X kinds} \cup {RootUnresolved}

\* contents other software, or an earlier run, may have left in the temp store
ExtContents ==
    { <<>>, <<"1">>, <<"2", "\n">>, <<"9", "9", "\n">>, <<" ", "1", "\n">>,
      <<"x">>, <<"-", "1">>, <<"1", "\n", "\n">> }

\* entries other software may have left at a store path of kind k, besides
\* the empty file and the empty directory the library itself creates there
ExtEntries(k) ==
    IF storage_type_is_dir(k)
    THEN {File(<<"x">>)} \cup {Dir(n) : n \in 1..MaxKids}
    ELSE {File(<<"x">>), Dir(0)}

\* entries other software may have left at the stores provision() uses
ProvEntries(k) ==
    IF k = "TEMP_FILE" THEN {File(c) : c \in ExtContents} \cup {Dir(0)}
    ELSE {File(<<>>), File(Marker), Dir(0)}

\* the answers of a query handler, and the contents of an uninitialised buffer
Answers == {<<"a">>}

Junk == {<<"?">>, <<"!">>}

NoAnswer == [ret |-> TRUE, touch |-> FALSE, data |-> <<"a">>]

ModuleEmpty(st) == \A k \in Kinds : st.fs[<<MODULE_INFO, k>>].t = "absent"

ModuleSame(st1, st2) == \A k \in Kinds : st1.fs[<<MODULE_INFO, k>>] = st2.fs[<<MODULE_INFO, k>>]

EmptyStorage == [fs |-> [p \in AllPaths |-> Absent], anc |-> {}, errno |-> "0"]

\* the return value of a call, by its C type: ptr for a path or a handler,
\* err for a bool, status for a module status, ret for a provisioning status
NoCall ==
    [op |-> "none", m |-> "", k |-> "", F |-> {}, pre |-> EmptyStorage,
     ptr |-> NULL, err |-> FALSE, status |-> {}, ret |-> "",
     reports |-> <<>>, query |-> NULL]

Call(op, m, k, F) == [NoCall EXCEPT !.op = op, !.m = m, !.k = k, !.F = F, !.pre = St]

Idle == last.op = "none"

\* the streak after an operation other than provision()
Keep(st) == streak' = IF ModuleSame(St, st) THEN streak ELSE <<>>

Init ==
    /\ fs = [p \in AllPaths |-> Absent]
    /\ anc = {}
    /\ errno = "0"
    /\ STATUS_CALLBACK = NULL
    /\ QUERY_CALLBACK = NULL
    /\ last = NoCall
    /\ streak = <<>>
    /\ killed = FALSE
    /\ procs = [p \in Procs |-> NotRunning]

\* the caller has looked at the result of the last call.  errno is read
\* only right after the failure that set it, so what it holds between two
\* calls is left out of the state.
Return ==
    /\ ~Idle
    /\ last' = NoCall
    /\ errno' = "0"
    /\ UNCHANGED <<fs, anc, STATUS_CALLBACK, QUERY_CALLBACK, streak, killed, procs>>


SetStatusHandler_once(callback) ==
    /\ Idle
    /\ STATUS_CALLBACK' = IF STATUS_CALLBACK = NULL THEN callback ELSE STATUS_CALLBACK
    /\ last' = [Call("set_status_handler", "", "", {}) EXCEPT !.ptr = callback]
    /\ UNCHANGED <<fs, anc, errno, QUERY_CALLBACK, streak, killed, procs>>

SetStatusHandler(callback) ==
    /\ Idle
    /\ STATUS_CALLBACK' = callback
    /\ last' = [Call("set_status_handler", "", "", {}) EXCEPT !.ptr = callback]
    /\ UNCHANGED <<fs, anc, errno, QUERY_CALLBACK, streak, killed, procs>>

SetQueryHandler(callback) ==
    /\ Idle
    /\ QUERY_CALLBACK' = callback
    /\ last' = [Call("set_query_handler", "", "", {}) EXCEPT !.ptr = callback]
    /\ UNCHANGED <<fs, anc, errno, STATUS_CALLBACK, streak, killed, procs>>

\* the process ends and a new one starts: nothing in memory survives
Restart ==
    /\ Idle
    /\ STATUS_CALLBACK # NULL \/ QUERY_CALLBACK # NULL
    /\ STATUS_CALLBACK' = NULL
    /\ QUERY_CALLBACK' = NULL
    /\ errno' = "0"
    /\ UNCHANGED <<fs, anc, last, streak, killed, procs>>

CreateNvStore(m, k, F) ==
    LET r == puflib_create_nv_store(St, m, k, F)
    IN  /\ Idle
        /\ Store(r.st)
        /\ last' = [Call("create", m, k, F) EXCEPT !.ptr = r.ret]
        /\ Keep(r.st)
        /\ UNCHANGED <<STATUS_CALLBACK, QUERY_CALLBACK, killed, procs>>

GetNvStore(m, k, F) ==
    LET r == puflib_get_nv_store(St, m, k, F)
    IN  /\ Idle
        /\ Store(r.st)
        /\ last' = [Call("get", m, k, F) EXCEPT !.ptr = r.ret]
        /\ Keep(r.st)
        /\ UNCHANGED <<STATUS_CALLBACK, QUERY_CALLBACK, killed, procs>>

DeleteNvStore(m, k, F) ==
    LET r == puflib_delete_nv_store(St, m, k, F)
    IN  /\ Idle
        /\ Store(r.st)
        /\ last' = [Call("delete", m, k, F) EXCEPT !.err = r.ret]
        /\ Keep(r.st)
        /\ UNCHANGED <<STATUS_CALLBACK, QUERY_CALLBACK, killed, procs>>

ModuleStatus(m, F) ==
    /\ Idle
    /\ last' = [Call("module_status", m, "", F) EXCEPT
                   !.status = puflib_module_status(St, m, F)]
    /\ UNCHANGED <<fs, anc, errno, STATUS_CALLBACK, QUERY_CALLBACK, streak, killed, procs>>

Deprovision(m, F) ==
    LET r == puflib_deprovision(St, m, F)
    IN  /\ Idle
        /\ Store(r.st)
        /\ last' = [Call("deprovision", m, "", F) EXCEPT !.err = r.ret]
        /\ Keep(r.st)
        /\ UNCHANGED <<STATUS_CALLBACK, QUERY_CALLBACK, killed, procs>>

\* one invocation of the module's provision().  Without a status handler
\* the first report calls a null pointer and the process dies there: every
\* path of provision() reports right after its attempt to create the store.
Provision(in) ==
    LET r == provision(St, STATUS_CALLBACK, QUERY_CALLBACK, in)
        c == puflib_create_nv_store(St, MODULE_INFO, "TEMP_FILE", in.F)
    IN  /\ Idle
        /\ IF STATUS_CALLBACK = NULL
           THEN /\ Store(c.st)
                /\ last' = [Call("provision", MODULE_INFO, "", in.F) EXCEPT !.ret = "SIGSEGV"]
                /\ streak' = <<>>
           ELSE /\ Store(r.st)
                /\ last' = [Call("provision", MODULE_INFO, "", in.F) EXCEPT
                               !.ret = r.ret, !.reports = r.reports, !.query = r.query]
                /\ streak' = IF in.F # {} THEN <<>>
                             ELSE IF ModuleEmpty(St) THEN <<r.ret>>
                             ELSE IF streak # <<>> /\ Len(streak) < 3
                                  THEN Append(streak, r.ret)
                             ELSE <<>>
        /\ UNCHANGED <<STATUS_CALLBACK, QUERY_CALLBACK, killed, procs>>

\* a provision() whose process ends between two of its storage operations
ProvisionKilled(in) ==
    /\ Idle
    /\ STATUS_CALLBACK # NULL
    /\ \E st \in provision(St, STATUS_CALLBACK, QUERY_CALLBACK, in).mid : Store(st)
    /\ last' = [Call("provision", MODULE_INFO, "", in.F) EXCEPT !.ret = "KILLED"]
    /\ streak' = <<>>
    /\ killed' = TRUE
    /\ STATUS_CALLBACK' = NULL
    /\ QUERY_CALLBACK' = NULL
    /\ UNCHANGED procs

\* other software writes an entry into the storage
External(p, e) ==
    /\ Idle
    /\ fs[p].t = "absent"
    /\ fs' = [fs EXCEPT ![p] = e]
    /\ anc' = anc \cup {p[1]}
    /\ streak' = IF p[1] = MODULE_INFO THEN <<>> ELSE streak
    /\ UNCHANGED <<errno, STATUS_CALLBACK, QUERY_CALLBACK, last, killed, procs>>

\* the inputs of one provision(): without failures, whatever the query
\* handler does and whatever the formatting does; or with a failure
ProvisionInputs ==
    [F : {{}}, aspr : BOOLEAN, vaspr : BOOLEAN, junk : Junk,
     h : [ret : BOOLEAN, touch : BOOLEAN, data : Answers]]
    \cup
    [F : FaultSets({"path", "mkdir", "creat", "fopen", "write", "remove"},
                   {"TEMP_FILE", "FINAL_FILE"}) \ {{}},
     aspr : {TRUE}, vaspr : {TRUE}, junk : {<<"?">>}, h : {NoAnswer}]

----------------------------------------------------------------------------
(* The storage interface of the library, called on any store in any order, *)
(* with other software writing into the storage.                           *)

StoreBound == NStores(fs') <= MaxStores

NextStore ==
    \/ Return
    \/ \E p \in Paths :
          \E F \in FaultSets({"path", "mkdir", "creat"}, {p[2]}) \ {RootUnresolved} :
             CreateNvStore(p[1], p[2], F) /\ StoreBound
    \/ \E p \in Paths :
          \E F \in FaultSets({"path"}, {p[2]}) \ {RootUnresolved} :
             GetNvStore(p[1], p[2], F)
    \/ \E p \in Paths :
          \E F \in FaultSets({"path", "remove", "rmpartial"}, {p[2]}) \ {RootUnresolved} :
             DeleteNvStore(p[1], p[2], F)
    \/ \E m \in Modules :
          \E F \in FaultSets({"path"}, {"FINAL_FILE", "FINAL_DIR", "DISABLED_FILE", "DISABLED_DIR"}) :
             ModuleStatus(m, F)
    \/ \E m \in Modules :
          \E F \in FaultSets({"path", "remove", "rmpartial"}, {"FINAL_FILE", "FINAL_DIR"}) :
             Deprovision(m, F)
    \/ \E p \in Paths : \E e \in ExtEntries(p[2]) : External(p, e) /\ StoreBound

SpecStore == Init /\ [][NextStore]_vars

----------------------------------------------------------------------------
(* The provisioning of the test module over successive processes.          *)

ProvPaths == {TempPath, FinalPath, <<MODULE_INFO, "DISABLED_FILE">>}

NextProv ==
    \/ Return
    \/ SetStatusHandler(<<"status_1">>)
    \/ \E cb \in {<<"query_1">>, NULL} : SetQueryHandler(cb)
    \/ Restart
    \/ \E in \in ProvisionInputs : Provision(in)
    \/ \E p \in ProvPaths : \E e \in ProvEntries(p[2]) : External(p, e)
    \/ Deprovision(MODULE_INFO, {})

SpecProv == Init /\ [][NextProv]_vars

----------------------------------------------------------------------------
(* Provisioning interrupted once, then invoked again and again by fresh    *)
(* processes, with no failure and nobody else touching the storage.  The   *)
(* caller keeps going: it installs its handlers, invokes provision(),      *)
(* looks at the result and starts over, so some step is always taken.      *)

CleanInputs == {in \in ProvisionInputs : in.F = {}}

NextKill ==
    \/ Return
    \/ STATUS_CALLBACK = NULL /\ SetStatusHandler(<<"status_1">>)
    \/ QUERY_CALLBACK = NULL /\ SetQueryHandler(<<"query_1">>)
    \/ \E in \in CleanInputs : STATUS_CALLBACK # NULL /\ Provision(in)
    \/ \E in \in CleanInputs : ~killed /\ ProvisionKilled(in)

SpecKill == Init /\ [][NextKill]_vars /\ WF_vars(NextKill)

----------------------------------------------------------------------------
(* Properties of provision() *)

Provisioned == last.op = "provision" /\ last.ret # "SIGSEGV" /\ last.ret # "KILLED"

Completed == last.op = "provision" /\ last.ret = PROVISION_COMPLETE

TempStep == read_step(St)

HasReport(level, message) ==
    \E i \in 1..Len(last.reports) :
       /\ last.reports[i].level = level
       /\ last.reports[i].msg = message
       /\ last.reports[i].h = STATUS_CALLBACK
       /\ last.reports[i].text \in
             {<<LevelAsString(level), " (", MODULE_INFO, "): ">> \o message, FormatError}

\* C1: three provision() invocations in a row, from empty storage and
\* without failures, return INCOMPLETE, INCOMPLETE, COMPLETE; after the
\* first the temp store holds step 1, after the second step 2, after the
\* third the temp store is gone, the final store holds "provisioned" and
\* the module status includes PROVISIONED.
C1_RoundTrip ==
    /\ Len(streak) >= 1 =>
          /\ streak[1] = PROVISION_INCOMPLETE
          /\ Len(streak) = 1 => fs[TempPath].t = "file" /\ TempStep = 1
    /\ Len(streak) >= 2 =>
          /\ streak[2] = PROVISION_INCOMPLETE
          /\ Len(streak) = 2 => fs[TempPath].t = "file" /\ TempStep = 2
    /\ Len(streak) >= 3 =>
          /\ streak[3] = PROVISION_COMPLETE
          /\ fs[TempPath] = Absent
          /\ fs[FinalPath] = File(Marker)
          /\ MODULE_PROVISIONED \in puflib_module_status(St, MODULE_INFO, {})

C1_Witness ==
    /\ Len(streak) = 3
    /\ Provisioned /\ last.ret = PROVISION_COMPLETE
    /\ last.pre.fs[TempPath] = File(FormatStep(2))

\* C2: provision() on an existing temp store whose step is neither 1 nor
\* 2 returns ERROR and leaves the storage as it was, whatever fails; when
\* nothing fails it reports "NV store corrupted" at WARN level.
C2_Corrupted ==
    ( /\ Provisioned
      /\ last.pre.fs[TempPath].t = "file"
      /\ read_step(last.pre) \notin {1, 2} )
    => /\ last.ret = PROVISION_ERROR
       /\ fs = last.pre.fs
       /\ last.F = {} => HasReport(STATUS_WARN, <<"NV store corrupted">>)

C2_Witness ==
    /\ Provisioned /\ last.F = {}
    /\ last.pre.fs[TempPath] = File(<<"9", "9", "\n">>)
    /\ fs[TempPath] = File(<<"9", "9", "\n">>)
    /\ last.ret = PROVISION_ERROR
    /\ HasReport(STATUS_WARN, <<"NV store corrupted">>)

\* C3: once a provision() has been interrupted between two of its storage
\* operations, the invocations that follow eventually return COMPLETE.
C3_Recovers == killed ~> Completed

\* C4: a provision() that finds no temp store and meets no failure writes
\* step 1 to the temp store it creates and returns INCOMPLETE, with or
\* without a query handler and whatever the handler does; it touches no
\* other store.
C4_FreshRun ==
    ( /\ Provisioned
      /\ last.F = {}
      /\ last.pre.fs[TempPath] = Absent )
    => /\ last.ret = PROVISION_INCOMPLETE
       /\ fs[TempPath] = File(FormatStep(1))
       /\ TempStep = 1
       /\ \A p \in AllPaths \ {TempPath} : fs[p] = last.pre.fs[p]

C4_Witness ==
    /\ Provisioned /\ last.F = {}
    /\ last.pre.fs[TempPath] = Absent
    /\ last.query = <<TRUE, TRUE>>
    /\ last.ret = PROVISION_INCOMPLETE

----------------------------------------------------------------------------
(* Properties of the NV store functions *)

LastPath == <<last.m, last.k>>

Shape(k) == IF storage_type_is_dir(k) THEN "dir" ELSE "file"

PathResolves == <<"path", last.k>> \notin last.F

OthersUnchanged == \A q \in AllPaths \ {LastPath} : fs[q] = last.pre.fs[q]

C7_DirExists ==
    ( /\ last.op = "create" /\ last.k \in DirKinds /\ PathResolves
      /\ last.pre.fs[LastPath].t = "dir" )
    => /\ last.ptr = NULL
       /\ errno = "EEXIST"
       /\ fs = last.pre.fs
       /\ anc = last.pre.anc

C7_Witness ==
    /\ last.op = "create" /\ last.k \in DirKinds /\ last.F = {}
    /\ last.pre.fs[LastPath] = Dir(1)
    /\ last.ptr = NULL /\ errno = "EEXIST"
    /\ fs[LastPath] = Dir(1)

\* C8: right after a successful create, get on the same module and kind
\* returns the same path; get on a path that holds nothing, or an entry of
\* the other shape, fails with EACCES; get never changes the storage.
C8_CreateThenGet ==
    /\ ( last.op = "create" /\ last.ptr # NULL )
       => /\ last.ptr = LastPath
          /\ puflib_get_nv_store(St, last.m, last.k, {}).ret = last.ptr
    /\ last.op = "get"
       => /\ fs = last.pre.fs /\ anc = last.pre.anc
          /\ last.ptr \in {NULL, LastPath}
          /\ ( PathResolves /\ last.pre.fs[LastPath].t # Shape(last.k) )
                => last.ptr = NULL /\ errno = "EACCES"
          /\ ( PathResolves /\ last.pre.fs[LastPath].t = Shape(last.k) )
                => last.ptr = LastPath

C8_Witness ==
    /\ last.op = "create" /\ last.k \in DirKinds /\ last.ptr = LastPath
    /\ fs[LastPath] = Dir(0)
    /\ puflib_get_nv_store(St, last.m, last.k, {}).ret = LastPath

\* C9: a successful delete leaves nothing at the store's path and every
\* other store as it was; after it get fails and create succeeds.  delete
\* with nothing at the path reports failure.
C9_Delete ==
    last.op = "delete"
    => /\ OthersUnchanged
       /\ ~last.err
             => /\ fs[LastPath] = Absent
                /\ last.pre.fs[LastPath] # Absent
                /\ puflib_get_nv_store(St, last.m, last.k, {}).ret = NULL
                /\ puflib_create_nv_store(St, last.m, last.k, {}).ret = LastPath
       /\ last.pre.fs[LastPath] = Absent => last.err /\ fs = last.pre.fs
       /\ ( last.F = {} /\ last.pre.fs[LastPath].t = Shape(last.k) ) => ~last.err

C9_Witness ==
    /\ last.op = "delete" /\ last.k \in DirKinds /\ ~last.err
    /\ last.pre.fs[LastPath] = Dir(1)
    /\ fs[LastPath] = Absent

Present(st, m, k) == st.fs[<<m, k>>].t = Shape(k)

StatusKinds == {"FINAL_FILE", "FINAL_DIR", "DISABLED_FILE", "DISABLED_DIR"}

\* C10: when the four paths resolve, module_status has DISABLED exactly
\* when a disabled store is present and PROVISIONED exactly when a final or
\* a disabled store is present, and no other flag; when a path does not
\* resolve it is the error status.  It changes nothing.
C10_Status ==
    last.op = "module_status"
    => /\ St = last.pre
       /\ (\E k \in StatusKinds : <<"path", k>> \in last.F)
             => last.status = MODULE_STATUS_ERROR
       /\ (\A k \in StatusKinds : <<"path", k>> \notin last.F)
             => /\ last.status \subseteq {MODULE_PROVISIONED, MODULE_DISABLED}
                /\ MODULE_DISABLED \in last.status
                      <=> \E k \in {"DISABLED_FILE", "DISABLED_DIR"} : Present(St, last.m, k)
                /\ MODULE_PROVISIONED \in last.status
                      <=> \E k \in StatusKinds : Present(St, last.m, k)
                /\ MODULE_DISABLED \in last.status => MODULE_PROVISIONED \in last.status

C10_Witness ==
    /\ last.op = "module_status" /\ last.F = {}
    /\ Present(St, last.m, "DISABLED_FILE")
    /\ \A k \in StatusKinds \ {"DISABLED_FILE"} : ~Present(St, last.m, k)
    /\ fs[<<last.m, "TEMP_FILE">>].t = "file"
    /\ last.status = {MODULE_PROVISIONED, MODULE_DISABLED}

----------------------------------------------------------------------------
(* The callback bus and the module table, called directly.                 *)

\* at most this many descriptors in a module table
MaxModules == 3

ModuleNames == {"puflibtest", "other", "Other"}

\* the module tables a build may link: PUFLIB_MODULES is one of them
Tables == UNION {[1..n -> ModuleNames] : n \in 0..MaxModules}

Levels == STATUS_INFO..(STATUS_ERROR + 1)

Messages == {<<>>, <<"m">>}

\* the formatting calls that fail for lack of memory
FormatFaults == {{}, {<<"asprintf", "">>}, {<<"vasprintf", "">>}}

Report(level, message, F) ==
    /\ Idle
    /\ <<"vasprintf", "">> \notin F
    /\ last' = IF STATUS_CALLBACK = NULL
               THEN [Call("report", MODULE_INFO, "", F) EXCEPT !.ret = "SIGSEGV"]
               ELSE [Call("report", MODULE_INFO, "", F) EXCEPT
                        !.ret = "void",
                        !.reports = << puflib_report(STATUS_CALLBACK, MODULE_INFO, level,
                                           message, <<"asprintf", "">> \notin F) >>]
    /\ UNCHANGED <<fs, anc, errno, STATUS_CALLBACK, QUERY_CALLBACK, streak, killed, procs>>

ReportFmt(level, formatted, F) ==
    /\ Idle
    /\ last' = IF STATUS_CALLBACK = NULL
               THEN [Call("report_fmt", MODULE_INFO, "", F) EXCEPT !.ret = "SIGSEGV"]
               ELSE [Call("report_fmt", MODULE_INFO, "", F) EXCEPT
                        !.ret = "void",
                        !.reports = << puflib_report_fmt(STATUS_CALLBACK, MODULE_INFO, level,
                                           formatted, <<"vasprintf", "">> \notin F,
                                           <<"asprintf", "">> \notin F) >>]
    /\ UNCHANGED <<fs, anc, errno, STATUS_CALLBACK, QUERY_CALLBACK, streak, killed, procs>>

\* last.query: was a handler called, what it returned, the buffer before
\* and after the call
Query(buffer, h) ==
    LET q == puflib_query(St, QUERY_CALLBACK, buffer, h)
    IN  /\ Idle
        /\ Store(q.st)
        /\ last' = [Call("query", MODULE_INFO, "", {}) EXCEPT
                       !.ptr = IF q.called THEN QUERY_CALLBACK ELSE NULL,
                       !.err = q.ret,
                       !.query = <<q.called, h.ret, buffer, q.buffer>>]
        /\ UNCHANGED <<STATUS_CALLBACK, QUERY_CALLBACK, streak, killed, procs>>

\* last.query: the table looked into
GetModule(modules, name) ==
    /\ Idle
    /\ last' = [Call("get_module", name, "", {}) EXCEPT
                   !.ptr = puflib_get_module(modules, name),
                   !.query = modules]
    /\ UNCHANGED <<fs, anc, errno, STATUS_CALLBACK, QUERY_CALLBACK, streak, killed, procs>>

NextBus ==
    \/ Return
    \/ \E cb \in StatusHandlers : SetStatusHandler(cb)
    \/ \E cb \in QueryHandlers \cup {NULL} : SetQueryHandler(cb)
    \/ \E level \in Levels : \E message \in Messages : \E F \in FormatFaults :
          Report(level, message, F)
    \/ \E level \in Levels : \E message \in Messages : \E F \in FormatFaults :
          ReportFmt(level, message, F)
    \/ \E buffer \in Junk :
          \E h \in [ret : BOOLEAN, touch : BOOLEAN, data : Answers] : Query(buffer, h)
    \/ \E modules \in Tables \cup {PUFLIB_MODULES} :
          \E name \in ModuleNames \cup {"unknown"} : GetModule(modules, name)

SpecBus == Init /\ [][NextBus]_vars

----------------------------------------------------------------------------
(* Properties of the callback bus and of the module table *)

\* C11: query without a query handler calls nothing, returns true (the
\* failure signal of the library's bool results) and leaves the buffer as
\* it was; with a handler it calls that handler and returns what the
\* handler returned.
C11_Query ==
    last.op = "query"
    => /\ QUERY_CALLBACK = NULL
             => /\ last.err = TRUE
                /\ last.ptr = NULL
                /\ last.query[1] = FALSE
                /\ last.query[4] = last.query[3]
       /\ QUERY_CALLBACK # NULL
             => /\ last.query[1] = TRUE
                /\ last.ptr = QUERY_CALLBACK
                /\ last.err = last.query[2]
       /\ fs = last.pre.fs

C11_Witness ==
    /\ last.op = "query"
    /\ QUERY_CALLBACK = NULL
    /\ last.err = TRUE
    /\ last.query[3] = <<"?">> /\ last.query[4] = <<"?">>

\* the label the text of a report starts with
Label(level) ==
    IF level = STATUS_INFO THEN "info" ELSE IF level = STATUS_WARN THEN "warn" ELSE "error"

\* C12: with a status handler installed, every report and report_fmt
\* calls that handler exactly once and returns; the handler receives
\* "<label> (<module name>): <message>", the label being info, warn or
\* error and error for any other level, or the fixed internal-error text
\* when a formatting call fails.
C12_Report ==
    ( last.op \in {"report", "report_fmt"} /\ STATUS_CALLBACK # NULL )
    => /\ last.ret = "void"
       /\ Len(last.reports) = 1
       /\ last.reports[1].h = STATUS_CALLBACK
       /\ last.F = {}
             => last.reports[1].text =
                   <<Label(last.reports[1].level), " (", last.m, "): ">> \o last.reports[1].msg
       /\ last.F # {} => last.reports[1].text = FormatError

C12_Witness ==
    /\ last.op = "report" /\ last.F = {}
    /\ STATUS_CALLBACK = <<"status_1">>
    /\ last.reports[1].level = STATUS_ERROR + 1
    /\ last.reports[1].text = <<"error", " (", "puflibtest", "): ", "m">>

\* C13: a call of set_status_handler (set_query_handler) puts its argument
\* into the status (query) slot and leaves the other slot alone; no other
\* call changes a slot; every report goes to the handler in the status
\* slot and every query to the handler in the query slot.  So a handler
\* receives the calls from the set that installs it until the next set on
\* its slot, and no handler installed before receives any.
C13_LastWriterWins ==
    [][ /\ ( Idle /\ last'.op = "set_status_handler" )
              => STATUS_CALLBACK' = last'.ptr /\ QUERY_CALLBACK' = QUERY_CALLBACK
        /\ ( Idle /\ last'.op = "set_query_handler" )
              => QUERY_CALLBACK' = last'.ptr /\ STATUS_CALLBACK' = STATUS_CALLBACK
        /\ last'.op \notin {"set_status_handler", "set_query_handler"}
              => STATUS_CALLBACK' = STATUS_CALLBACK /\ QUERY_CALLBACK' = QUERY_CALLBACK
        /\ ( Idle /\ last'.op \in {"report", "report_fmt"} )
              => \A i \in 1..Len(last'.reports) : last'.reports[i].h = STATUS_CALLBACK
        /\ ( Idle /\ last'.op = "query" )
              => last'.ptr = QUERY_CALLBACK
      ]_vars

C13_Witness ==
    /\ last.op = "report"
    /\ STATUS_CALLBACK = <<"status_2">>
    /\ QUERY_CALLBACK = <<"query_1">>
    /\ Len(last.reports) = 1
    /\ last.reports[1].h = <<"status_2">>

\* C14: get_module on a name some descriptor of the table carries returns
\* the first descriptor of the table with exactly that name; on any other
\* name it returns NULL; it changes nothing.
C14_GetModule ==
    last.op = "get_module"
    => LET modules == last.query
           hits == {i \in 1..Len(modules) : modules[i] = last.m}
       IN  /\ hits # {}
                 => /\ last.ptr # NULL
                    /\ last.ptr[1] \in hits
                    /\ \A i \in hits : last.ptr[1] <= i
           /\ hits = {} => last.ptr = NULL
           /\ St = last.pre

C14_Witness ==
    /\ last.op = "get_module"
    /\ last.query = <<"Other", "other", "other">>
    /\ last.m = "other"
    /\ last.ptr = <<2>>

----------------------------------------------------------------------------
(* Properties of the provisioning progression *)

\* the changes of the temp store the progression allows to one invocation
StepForward ==
    \/ fs[TempPath] = last.pre.fs[TempPath]
    \/ /\ last.pre.fs[TempPath] = Absent
       /\ fs[TempPath].t = "file" /\ TempStep = 1
    \/ /\ last.pre.fs[TempPath].t = "file" /\ read_step(last.pre) = 1
       /\ fs[TempPath].t = "file" /\ TempStep = 2
    \/ /\ last.pre.fs[TempPath].t = "file" /\ read_step(last.pre) = 2
       /\ fs[TempPath] = Absent

\* C16: a provision() invocation leaves the temp store as it was or takes
\* it from absent to step 1, from step 1 to step 2 or from step 2 to
\* removed, and returns COMPLETE only when it began on step 2.
C16_Forward ==
    Provisioned
    => /\ StepForward
       /\ last.ret = PROVISION_COMPLETE
             => last.pre.fs[TempPath].t = "file" /\ read_step(last.pre) = 2

\* the invocation began on a temp store holding step 2 and got to read it
BeganOnStep2 ==
    /\ Provisioned
    /\ last.pre.fs[TempPath].t = "file"
    /\ read_step(last.pre) = 2
    /\ <<"path", "TEMP_FILE">> \notin last.F
    /\ <<"fopen", "TEMP_FILE">> \notin last.F

\* nothing stands in the way of the final store: nothing is at its path
\* and none of the operations that create and write it fails
FinalGoesWell ==
    /\ last.pre.fs[FinalPath] = Absent
    /\ \A op \in {"path", "mkdir", "creat", "fopen", "write"} :
          <<op, "FINAL_FILE">> \notin last.F

DisabledKinds == {"DISABLED_FILE", "DISABLED_DIR"}

\* the storage st with the module's disabled stores set to df and dd
WithDisabled(st, df, dd) ==
    [st EXCEPT !.fs[<<MODULE_INFO, "DISABLED_FILE">>] = df,
               !.fs[<<MODULE_INFO, "DISABLED_DIR">>] = dd]

\* C18: a provision() invocation leaves the disabled stores as they were,
\* and the same invocation on a storage that differs only in the disabled
\* stores returns the same status and leaves the same temp and final
\* stores.
C18_DisabledOrthogonal ==
    Provisioned
    => /\ \A k \in DisabledKinds :
             fs[<<MODULE_INFO, k>>] = last.pre.fs[<<MODULE_INFO, k>>]
       /\ \A df \in {Absent, File(<<>>)} : \A dd \in {Absent, Dir(0)} :
             \A in \in {i \in ProvisionInputs : i.F = last.F} :
                LET r == provision(WithDisabled(last.pre, df, dd),
                                   STATUS_CALLBACK, QUERY_CALLBACK, in)
                IN  /\ r.ret = last.ret
                    /\ \A p \in AllPaths :
                          p[2] \notin DisabledKinds => r.st.fs[p] = fs[p]
                    /\ \A k \in DisabledKinds :
                          r.st.fs[<<MODULE_INFO, k>>] =
                             WithDisabled(last.pre, df, dd).fs[<<MODULE_INFO, k>>]

C18_Witness ==
    /\ Provisioned
    /\ last.pre.fs[<<MODULE_INFO, "DISABLED_FILE">>] = File(<<>>)
    /\ fs[<<MODULE_INFO, "DISABLED_FILE">>] = File(<<>>)
    /\ last.ret = PROVISION_COMPLETE
    /\ MODULE_DISABLED \in puflib_module_status(St, MODULE_INFO, {})

\* C19: a final store that is there stays as it is through every step
\* but a deprovision, provision() included, and the module status keeps
\* PROVISIONED; a provision() without failures on a module with its final
\* store and no temp store creates the temp store with step 1 and returns
\* INCOMPLETE.
C19_StaysProvisioned ==
    [][ /\ ( fs[FinalPath].t = "file" /\ last'.op # "deprovision" )
              => /\ fs'[FinalPath] = fs[FinalPath]
                 /\ MODULE_PROVISIONED \in puflib_module_status(St', MODULE_INFO, {})
        /\ ( /\ Idle /\ last'.op = "provision" /\ last'.F = {}
             /\ last'.ret \notin {"SIGSEGV", "KILLED"}
             /\ fs[FinalPath].t = "file" /\ fs[TempPath] = Absent )
              => /\ last'.ret = PROVISION_INCOMPLETE
                 /\ fs'[TempPath] = File(FormatStep(1))
      ]_vars

C19_Witness ==
    /\ Provisioned /\ last.F = {}
    /\ last.pre.fs[FinalPath] = File(Marker)
    /\ last.pre.fs[TempPath] = Absent
    /\ last.ret = PROVISION_INCOMPLETE
    /\ fs[TempPath] = File(FormatStep(1))
    /\ fs[FinalPath] = File(Marker)

----------------------------------------------------------------------------
(* Properties of puflib_deprovision *)

FinalKinds == {"FINAL_FILE", "FINAL_DIR"}

\* C20: deprovision reports success when nothing fails, also with no final
\* store; after a success no final store is left, and the module status
\* has PROVISIONED only with a disabled store; the temp and disabled
\* stores and the stores of other modules stay as they were; when the
\* removal of the final file fails it reports failure and the final
\* directory stays as it was.
C20_Deprovision ==
    last.op = "deprovision"
    => /\ last.F = {} => ~last.err
       /\ ~last.err
             => /\ \A k \in FinalKinds : ~Present(St, last.m, k)
                /\ MODULE_PROVISIONED \in puflib_module_status(St, last.m, {})
                      => \E k \in DisabledKinds : Present(St, last.m, k)
       /\ \A p \in AllPaths :
             ( p[1] # last.m \/ p[2] \notin FinalKinds ) => fs[p] = last.pre.fs[p]
       /\ ( Present(last.pre, last.m, "FINAL_FILE") /\ <<"remove", "FINAL_FILE">> \in last.F )
             => /\ last.err
                /\ fs[<<last.m, "FINAL_DIR">>] = last.pre.fs[<<last.m, "FINAL_DIR">>]

----------------------------------------------------------------------------
(* Processes that run provision() for the test module at the same time,    *)
(* each with its own status handler and no query handler.  A process takes *)
(* one step per storage operation.  The file system is not atomic: inside  *)
(* the creation of the temp store, the test for an entry at the path and   *)
(* the creation of the file are two steps, and a creation that finds the   *)
(* file made in between opens it, emptied or not.                          *)

RaceInput == [F |-> {}, aspr |-> TRUE, vaspr |-> TRUE, junk |-> <<"?">>, h |-> NoAnswer]

RaceHandler == <<"status_1">>

\* puflib_create_nv_store up to the creation of the file: the directories
RaceTree(p) ==
    LET t == puflib_create_directory_tree(St, TempPath, TRUE, {})
    IN  /\ procs[p].pc = "start"
        /\ anc' = t.st.anc
        /\ procs' = [procs EXCEPT ![p].pc = "probe"]
        /\ UNCHANGED <<fs, errno, STATUS_CALLBACK, QUERY_CALLBACK, last, streak, killed>>

\* the creation of the file looks for an entry at the path; an entry makes
\* puflib_create_nv_store return NULL
RaceProbe(p) ==
    /\ procs[p].pc = "probe"
    /\ procs' = [procs EXCEPT ![p].saw = fs[TempPath].t,
                              ![p].pc = IF fs[TempPath].t = "absent" THEN "creat"
                                        ELSE "resume"]
    /\ UNCHANGED <<fs, anc, errno, STATUS_CALLBACK, QUERY_CALLBACK, last, streak, killed>>

\* the creation of the file, after the test found nothing
RaceCreat(p) ==
    /\ procs[p].pc = "creat"
    /\ \/ fs' = [fs EXCEPT ![TempPath] = File(<<>>)]
       \/ fs[TempPath].t = "file" /\ fs' = fs
    /\ procs' = [procs EXCEPT ![p].pc = "fresh"]
    /\ UNCHANGED <<anc, errno, STATUS_CALLBACK, QUERY_CALLBACK, last, streak, killed>>

\* provision() after puflib_create_nv_store returned the path
RaceFresh(p) ==
    LET r == provision_created([st |-> St, ret |-> TempPath], RaceHandler, NULL, RaceInput)
    IN  /\ procs[p].pc = "fresh"
        /\ fs' = r.st.fs
        /\ procs' = [procs EXCEPT ![p].pc = "done", ![p].ret = r.ret,
                        ![p].wrote = IF r.ret = PROVISION_INCOMPLETE THEN 1 ELSE 0]
        /\ UNCHANGED <<anc, errno, STATUS_CALLBACK, QUERY_CALLBACK, last, streak, killed>>

\* provision() after puflib_create_nv_store returned NULL
RaceResume(p) ==
    LET r == provision_not_created([st |-> [St EXCEPT !.errno = "EEXIST"], ret |-> NULL],
                                   RaceHandler, RaceInput)
    IN  /\ procs[p].pc = "resume"
        /\ fs' = r.st.fs
        /\ anc' = r.st.anc
        /\ procs' = [procs EXCEPT ![p].pc = "done", ![p].ret = r.ret]
        /\ UNCHANGED <<errno, STATUS_CALLBACK, QUERY_CALLBACK, last, streak, killed>>

\* the process ends; a new one takes its place
RaceExit(p) ==
    /\ procs[p].pc = "done"
    /\ procs' = [procs EXCEPT ![p] = NotRunning]
    /\ UNCHANGED <<fs, anc, errno, STATUS_CALLBACK, QUERY_CALLBACK, last, streak, killed>>

NextRace ==
    \/ \E p \in Procs : RaceTree(p)
    \/ \E p \in Procs : RaceProbe(p)
    \/ \E p \in Procs : RaceCreat(p)
    \/ \E p \in Procs : RaceFresh(p)
    \/ \E p \in Procs : RaceResume(p)
    \/ \E p \in Procs : RaceExit(p)

SpecRace == Init /\ [][NextRace]_vars

\* process p went through a fresh run to its end
FreshRun(p) == procs[p].pc = "done" /\ procs[p].saw = "absent"

====
